---- MODULE Spec2Model ----
(***************************************************************************)
(* Model of package flagset (gocmd): flagset.New builds the flag list from *)
(* the declared fields, segments the raw tokens into commands and          *)
(* arguments, binds arguments to flags, resolves every flag's value by     *)
(* argument > environment > default, and checks the required flags.        *)
(*                                                                         *)
(* Go strings are modelled as sequences of one-character strings, so that  *)
(* prefix tests, trimming, splitting and number parsing are computed the   *)
(* way the strings/strconv calls of the source compute them.  Go's nil     *)
(* slices are the empty sequence, *Arg pointers are Arg ids (the index of  *)
(* the token), and the destination struct is a function from field index   *)
(* path to the field's value.                                              *)
(***************************************************************************)
EXTENDS Integers, Sequences, FiniteSets, TLC

VARIABLES pc, fields, env, argsRaw, flags, commands, args, dest, newErr

vars == <<pc, fields, env, argsRaw, flags, commands, args, dest, newErr>>

\* Longest raw token list explored.
MaxArgs == 4

-----------------------------------------------------------------------------
(* Package strings / strconv, on sequences of characters.                  *)

WhiteSpace == {" "}

Digits == {"0", "1", "2", "3", "4", "5", "6", "7", "8", "9"}

DigitVal(c) ==
    CASE c = "0" -> 0 [] c = "1" -> 1 [] c = "2" -> 2 [] c = "3" -> 3
      [] c = "4" -> 4 [] c = "5" -> 5 [] c = "6" -> 6 [] c = "7" -> 7
      [] c = "8" -> 8 [] c = "9" -> 9

HasPrefix(s, p) == Len(s) >= Len(p) /\ SubSeq(s, 1, Len(p)) = p

RECURSIVE TrimLeft(_, _)
TrimLeft(s, cutset) ==
    IF s # <<>> /\ Head(s) \in cutset THEN TrimLeft(Tail(s), cutset) ELSE s

RECURSIVE TrimRight(_, _)
TrimRight(s, cutset) ==
    IF s # <<>> /\ s[Len(s)] \in cutset
    THEN TrimRight(SubSeq(s, 1, Len(s) - 1), cutset)
    ELSE s

Trim(s, cutset) == TrimRight(TrimLeft(s, cutset), cutset)

TrimSpace(s) == Trim(s, WhiteSpace)

\* strings.Index for a one-character needle: 0-based position or -1.
Index(s, c) ==
    IF \E i \in 1..Len(s) : s[i] = c
    THEN (CHOOSE i \in 1..Len(s) : s[i] = c /\ \A j \in 1..(i - 1) : s[j] # c) - 1
    ELSE -1

\* strings.Split(s, sep) for a non-empty sep.
RECURSIVE Split(_, _)
Split(s, sep) ==
    LET hits == {i \in 1..(Len(s) - Len(sep) + 1) : SubSeq(s, i, i + Len(sep) - 1) = sep}
    IN IF hits = {}
       THEN <<s>>
       ELSE LET i == CHOOSE h \in hits : \A k \in hits : h <= k
            IN <<SubSeq(s, 1, i - 1)>> \o Split(SubSeq(s, i + Len(sep), Len(s)), sep)

RECURSIVE DigitsValue(_)
DigitsValue(s) ==
    IF s = <<>> THEN 0
    ELSE 10 * DigitsValue(SubSeq(s, 1, Len(s) - 1)) + DigitVal(s[Len(s)])

\* strconv.ParseInt(s, 10, _): an optional sign and at least one digit.
ParseInt(s) ==
    LET body == IF s # <<>> /\ Head(s) \in {"+", "-"} THEN Tail(s) ELSE s
    IN IF body # <<>> /\ \A i \in 1..Len(body) : body[i] \in Digits
       THEN [ok |-> TRUE,
             v  |-> IF Head(s) = "-" THEN 0 - DigitsValue(body) ELSE DigitsValue(body)]
       ELSE [ok |-> FALSE, v |-> 0]

-----------------------------------------------------------------------------
(* Errors: nil, or the message with the parts that vary.                   *)

NoErr == [msg |-> "nil", a |-> <<>>, b |-> <<>>]

Err(m, x, y) == [msg |-> m, a |-> x, b |-> y]

-----------------------------------------------------------------------------
(* Declared fields: the Flag that structFieldToFlag returns for each field *)
(* of the destination struct, in the depth-first order of                  *)
(* typeToStructField, with the field's index path and its parent's.        *)

SupportedFlagTypes ==
    {"bool", "float64", "int", "int64", "uint", "uint64", "string",
     "[]bool", "[]float64", "[]int", "[]int64", "[]uint", "[]uint64", "[]string",
     "struct"}

BoolTypes == {"bool", "[]bool"}

StringTypes == {"string", "[]string"}

\* strings.HasPrefix(valueType, "[]")
IsListType(t) == t \in {"[]bool", "[]float64", "[]int", "[]int64", "[]uint", "[]uint64", "[]string"}

\* A leaf field carrying short/long tags.
ArgField(name, index, parentIndex, short, long, valueType) ==
    [name |-> name, short |-> short, long |-> long, command |-> <<>>,
     required |-> FALSE, env |-> "", delimiter |-> <<>>, valueDefault |-> <<>>,
     valueType |-> valueType, kind |-> "arg",
     fieldIndex |-> index, parentIndex |-> parentIndex]

\* A nested struct field: kind "command", value type "struct".
CommandField(name, index, parentIndex, command) ==
    [name |-> name, short |-> <<>>, long |-> <<>>, command |-> command,
     required |-> FALSE, env |-> "", delimiter |-> <<>>, valueDefault |-> <<>>,
     valueType |-> "struct", kind |-> "command",
     fieldIndex |-> index, parentIndex |-> parentIndex]

\* The zero value of a destination field.
ZeroValue(valueType) ==
    CASE valueType = "bool" -> FALSE
      [] valueType \in {"int", "int64", "uint", "uint64", "float64"} -> 0
      [] OTHER -> <<>>

\* The Flag built for the k-th field (structToFlags, before checkFlags).
NewFlag(field, k) ==
    [id |-> k, name |-> field.name, short |-> field.short, long |-> field.long,
     command |-> field.command, required |-> field.required, env |-> field.env,
     delimiter |-> field.delimiter, valueDefault |-> field.valueDefault,
     valueType |-> field.valueType, valueBy |-> "", kind |-> field.kind,
     fieldIndex |-> field.fieldIndex, parentIndex |-> field.parentIndex,
     parentID |-> -1, commandID |-> -1, args |-> <<>>, err |-> NoErr]

\* structToFlags, first loop: non-flag fields are dropped, ids are field positions.
RECURSIVE FieldsToFlags(_, _)
FieldsToFlags(fs, k) ==
    IF k > Len(fs) THEN <<>>
    ELSE LET flag == NewFlag(fs[k], k - 1)
         IN (IF flag.short = <<>> /\ flag.long = <<>> /\ flag.kind # "command"
             THEN <<>> ELSE <<flag>>) \o FieldsToFlags(fs, k + 1)

\* A map of checkFlags (shorts, longs, commands): key -> parent of the field that set it.
MapHas(m, key) == \E e \in m : e.key = key

MapGet(m, key) == CHOOSE e \in m : e.key = key

MapPut(m, key, parent) == {e \in m : e.key # key} \cup {[key |-> key, parent |-> parent]}

\* checkFlags: the stored entry was set by a field of the same parent.
SameParent(entry, parent) == entry.parent = parent

\* One iteration of checkFlags: st = [shorts, longs, commands, result].
CheckOneFlag(st, v) ==
    LET parent == v.parentIndex
        dupShort == v.short # <<>> /\ MapHas(st.shorts, v.short)
                      /\ SameParent(MapGet(st.shorts, v.short), parent)
        errShort == IF v.short = <<>> THEN <<>>
                    ELSE IF dupShort THEN <<Err("short argument is already defined", v.short, <<>>)>>
                    ELSE IF Len(v.short) > 1
                         THEN <<Err("short argument must be one character long", v.short, <<>>)>>
                         ELSE <<>>
        shorts == IF v.short # <<>> /\ ~dupShort /\ Len(v.short) <= 1
                  THEN MapPut(st.shorts, v.short, parent) ELSE st.shorts
        dupLong == v.long # <<>> /\ MapHas(st.longs, v.long)
                      /\ SameParent(MapGet(st.longs, v.long), parent)
        errLong == IF dupLong THEN <<Err("long argument is already defined", v.long, <<>>)>>
                   ELSE <<>>
        longs == IF v.long # <<>> /\ ~dupLong
                 THEN MapPut(st.longs, v.long, parent) ELSE st.longs
        dupCmd == v.command # <<>> /\ MapHas(st.commands, v.command)
                      /\ SameParent(MapGet(st.commands, v.command), parent)
        errCmd == IF dupCmd THEN <<Err("command is already defined", v.command, <<>>)>>
                  ELSE <<>>
        cmds == IF v.command # <<>> /\ ~dupCmd
                THEN MapPut(st.commands, v.command, parent) ELSE st.commands
        errType == IF v.valueType \in SupportedFlagTypes THEN <<>>
                   ELSE <<Err("invalid type", <<>>, <<>>)>>
    IN [shorts |-> shorts, longs |-> longs, commands |-> cmds,
        result |-> st.result \o errShort \o errLong \o errCmd \o errType]

RECURSIVE CheckFlagsFrom(_, _, _)
CheckFlagsFrom(st, fl, k) ==
    IF k > Len(fl) THEN st ELSE CheckFlagsFrom(CheckOneFlag(st, fl[k]), fl, k + 1)

\* checkFlags: the errors found (nil when none).
checkFlags(fl) ==
    CheckFlagsFrom([shorts |-> {}, longs |-> {}, commands |-> {}, result |-> <<>>], fl, 1).result

\* structToFlags, last loop: parent ids by index path (the last match stays).
SetParentIDs(fl) ==
    [k \in 1..Len(fl) |->
        LET v == fl[k]
            ms == {j \in 1..Len(fl) : fl[j].fieldIndex = v.parentIndex}
        IN IF v.parentIndex # <<>> /\ ms # {}
           THEN [v EXCEPT !.parentID = fl[CHOOSE j \in ms : \A i \in ms : i <= j].id]
           ELSE v]

\* structToFlags: [flags, errs].
structToFlags(fs) ==
    LET result == FieldsToFlags(fs, 1)
        errs == checkFlags(result)
    IN IF errs # <<>> THEN [flags |-> <<>>, errs |-> errs]
       ELSE [flags |-> SetParentIDs(result), errs |-> <<>>]

\* lookupFlagByIndex: position in flags of the first match, 0 for nil.
lookupFlagByIndex(fl, index) ==
    IF index # <<>> /\ \E k \in 1..Len(fl) : fl[k].fieldIndex = index
    THEN CHOOSE k \in 1..Len(fl) :
            fl[k].fieldIndex = index /\ \A j \in 1..(k - 1) : fl[j].fieldIndex # index
    ELSE 0

-----------------------------------------------------------------------------
(* parseCommands                                                           *)

\* The Command created for a command flag; lookup maps flag id -> command id.
NewCommand(fl, flag, cnt, lookup) ==
    LET p == lookupFlagByIndex(fl, flag.parentIndex)
    IN [id |-> cnt, command |-> flag.command, flagID |-> flag.id,
        parentID |-> IF flag.parentIndex # <<>> /\ p # 0 /\ MapHas(lookup, fl[p].id)
                     THEN MapGet(lookup, fl[p].id).parent ELSE -1,
        argID |-> -1, indexFrom |-> -1, indexTo |-> -1]

\* First loop: one Command per command flag, in flag order.
RECURSIVE InitCommands(_, _, _, _)
InitCommands(fl, k, cmds, lookup) ==
    IF k > Len(fl) THEN cmds
    ELSE IF fl[k].kind = "command"
         THEN InitCommands(fl, k + 1,
                           Append(cmds, NewCommand(fl, fl[k], Len(cmds), lookup)),
                           MapPut(lookup, fl[k].id, Len(cmds)))
         ELSE InitCommands(fl, k + 1, cmds, lookup)

\* A nested command is accepted when some command was found before argIndex.
ParentFound(cmds, i, argIndex) ==
    \E j \in 1..Len(cmds) : cmds[j].argID # -1 /\ cmds[j].argID < argIndex

\* Second loop, one raw argument: the first command that takes it (0-based argIndex).
ScanArg(cmds, argIndex, argVal) ==
    LET takes(i) == /\ cmds[i].argID = -1
                    /\ cmds[i].command = argVal
                    /\ (cmds[i].parentID = -1 \/ ParentFound(cmds, i, argIndex))
        cand == {i \in 1..Len(cmds) : takes(i)}
    IN IF cand = {} THEN cmds
       ELSE LET i == CHOOSE c \in cand : \A d \in cand : c <= d
            IN [k \in 1..Len(cmds) |->
                  IF k = i
                  THEN [cmds[k] EXCEPT !.indexFrom = argIndex, !.argID = argIndex]
                  ELSE IF k = i - 1 /\ cmds[k].argID # -1
                       THEN [cmds[k] EXCEPT !.indexTo = argIndex]
                       ELSE cmds[k]]

RECURSIVE ScanArgs(_, _, _)
ScanArgs(cmds, raw, n) ==
    IF n > Len(raw) THEN cmds ELSE ScanArgs(ScanArg(cmds, n - 1, raw[n]), raw, n + 1)

\* Third loop: indexTo of the found commands that have none yet.
CloseIndexTo(cmds, i, lenArgs) ==
    LET cmd == cmds[i]
        next == {j \in (i + 1)..Len(cmds) : cmds[j].indexFrom # -1}
    IN IF cmd.argID = -1 \/ cmd.indexTo # -1 THEN cmd
       ELSE IF i = Len(cmds) THEN [cmd EXCEPT !.indexTo = lenArgs]
       ELSE IF next # {}
            THEN [cmd EXCEPT !.indexTo = cmds[CHOOSE j \in next : \A k \in next : j <= k].indexFrom]
            ELSE [cmd EXCEPT !.indexTo = lenArgs]

parseCommandsList(fl, raw) ==
    LET scanned == ScanArgs(InitCommands(fl, 1, <<>>, {}), raw, 1)
    IN [i \in 1..Len(scanned) |-> CloseIndexTo(scanned, i, Len(raw))]

\* Last loop: each command flag learns its command id.
SetCommandIDs(fl, cmds) ==
    [k \in 1..Len(fl) |->
        IF \E c \in 1..Len(cmds) : cmds[c].flagID = fl[k].id
        THEN [fl[k] EXCEPT !.commandID =
                 cmds[CHOOSE c \in 1..Len(cmds) : cmds[c].flagID = fl[k].id].id]
        ELSE fl[k]]

-----------------------------------------------------------------------------
(* parseArgs                                                               *)

\* First loop: the Arg of one raw token (0-based argIndex); the first command in
\* declaration order that is at this index, or whose range holds it, decides.
NewArg(cmds, argIndex, argVal) ==
    LET base == [id |-> argIndex, arg |-> argVal, name |-> <<>>, value |-> <<>>,
                 dash |-> <<>>, hasEq |-> FALSE, unnamed |-> FALSE, unset |-> FALSE,
                 kind |-> "", flagID |-> -1, commandID |-> -1, parentID |-> -1,
                 indexFrom |-> argIndex, indexTo |-> argIndex + 1, err |-> NoErr]
        atIndex(c) == argIndex = cmds[c].argID
        inRange(c) == cmds[c].indexFrom < base.indexFrom /\ cmds[c].indexTo >= base.indexTo
        hits == {c \in 1..Len(cmds) : atIndex(c) \/ inRange(c)}
        c == CHOOSE h \in hits : \A k \in hits : h <= k
        newArg == IF hits = {} THEN base
                  ELSE IF atIndex(c)
                       THEN [base EXCEPT !.name = argVal, !.kind = "command",
                                         !.flagID = cmds[c].flagID, !.commandID = cmds[c].id,
                                         !.indexFrom = cmds[c].indexFrom,
                                         !.indexTo = cmds[c].indexTo]
                       ELSE [base EXCEPT !.commandID = cmds[c].id]
    IN IF newArg.kind = "" THEN [newArg EXCEPT !.kind = "arg"] ELSE newArg

NewArgs(cmds, raw) == [i \in 1..Len(raw) |-> NewArg(cmds, i - 1, raw[i])]

\* Removal of the enclosing quotes of a value (strings.Trim on the quote that leads it).
StripQuotes(value) ==
    IF HasPrefix(value, <<"\"">>) THEN Trim(value, {"\""})
    ELSE IF HasPrefix(value, <<"'">>) THEN Trim(value, {"'"})
    ELSE value

\* Second loop, the Arg at position i (1-based): name, dash, value; the next token
\* becomes its value (kind argval) when the Arg has no `=` and the token is bare.
UpdateArg(as, i) ==
    LET arg == as[i]
        name0 == TrimSpace(TrimLeft(arg.arg, {"-"}))
        dash == IF HasPrefix(arg.arg, <<"-", "-">>) THEN <<"-", "-">>
                ELSE IF HasPrefix(arg.arg, <<"-">>) THEN <<"-">> ELSE <<>>
        ieq == Index(name0, "=")
        iqo == IF Index(name0, "\"") = -1 THEN Index(name0, "'") ELSE Index(name0, "\"")
        withEq == ieq > -1 /\ (ieq < iqo \/ iqo = -1)
        takesNext == /\ ~withEq
                     /\ i + 1 <= Len(as)
                     /\ as[i + 1].kind = "arg"
                     /\ ~HasPrefix(as[i + 1].arg, <<"-">>)
        value == IF withEq THEN StripQuotes(SubSeq(name0, ieq + 2, Len(name0)))
                 ELSE IF takesNext THEN StripQuotes(as[i + 1].arg)
                 ELSE arg.value
        updated == [arg EXCEPT !.name = IF withEq THEN SubSeq(name0, 1, ieq) ELSE name0,
                               !.dash = dash,
                               !.hasEq = withEq,
                               !.value = value,
                               !.indexTo = IF takesNext THEN as[i + 1].indexTo ELSE arg.indexTo,
                               !.unset = withEq /\ value = <<>>]
    IN IF arg.kind # "arg" THEN as
       ELSE IF dash = <<>>
            THEN [as EXCEPT ![i] = [arg EXCEPT !.name = name0, !.unnamed = TRUE]]
            ELSE [k \in 1..Len(as) |->
                    IF k = i THEN updated
                    ELSE IF k = i + 1 /\ takesNext
                         THEN [as[k] EXCEPT !.kind = "argval", !.value = value,
                                            !.parentID = arg.id]
                         ELSE as[k]]

RECURSIVE UpdateArgs(_, _)
UpdateArgs(as, i) == IF i > Len(as) THEN as ELSE UpdateArgs(UpdateArg(as, i), i + 1)

AllIds(as) == [i \in 1..Len(as) |-> i - 1]

\* A flag's short or long name is the Arg's name.
NameMatches(flag, arg) ==
    arg.name # <<>> /\ (flag.short = arg.name \/ flag.long = arg.name)

\* Third loop, the flag at position k: st = [flags, args].
BindFlag(st, cmds, k) ==
    LET flag == st.flags[k]
        as == st.args
        found == {c \in 1..Len(cmds) : cmds[c].argID # -1 /\ cmds[c].flagID = flag.id}
        cmd == cmds[CHOOSE c \in found : \A d \in found : c <= d]
        ofCmd(a) == a.commandID = cmd.id
        p == lookupFlagByIndex(st.flags, flag.parentIndex)
        nested(a) == NameMatches(flag, a)
        top(a) == a.commandID = -1 /\ NameMatches(flag, a)
        matched == IF flag.parentID # -1
                   THEN IF p # 0 /\ st.flags[p].args # <<>>
                        THEN SelectSeq(st.flags[p].args, LAMBDA id : nested(as[id + 1])) ELSE <<>>
                   ELSE SelectSeq(AllIds(as), LAMBDA id : top(as[id + 1]))
        ids == {matched[j] : j \in 1..Len(matched)}
    IN IF flag.kind = "command"
       THEN IF found = {} THEN st
            ELSE [st EXCEPT !.flags[k].args = flag.args \o SelectSeq(AllIds(as), LAMBDA id : ofCmd(as[id + 1]))]
       ELSE IF flag.kind = "arg" /\ matched # <<>>
            THEN [flags |-> [st.flags EXCEPT
                               ![k].args = flag.args \o matched,
                               ![k].commandID =
                                   IF flag.parentID # -1
                                   THEN as[matched[Len(matched)] + 1].commandID
                                   ELSE flag.commandID],
                  args |-> [i \in 1..Len(as) |->
                               IF (i - 1) \in ids THEN [as[i] EXCEPT !.flagID = flag.id]
                               ELSE as[i]]]
            ELSE st

RECURSIVE BindFlags(_, _, _)
BindFlags(st, cmds, k) ==
    IF k > Len(st.flags) THEN st ELSE BindFlags(BindFlag(st, cmds, k), cmds, k + 1)

\* parseArgs after parseCommands: [flags, args].
parseArgsResult(fl, cmds, raw) ==
    BindFlags([flags |-> fl, args |-> UpdateArgs(NewArgs(cmds, raw), 1)], cmds, 1)

-----------------------------------------------------------------------------
(* setFlag / unsetFlag on one destination field                            *)

True == <<"t", "r", "u", "e">>

False == <<"f", "a", "l", "s", "e">>

\* strconv.ParseUint(s, 10, _): digits only.
ParseUint(s) ==
    IF s # <<>> /\ \A i \in 1..Len(s) : s[i] \in Digits
    THEN [ok |-> TRUE, v |-> DigitsValue(s)]
    ELSE [ok |-> FALSE, v |-> 0]

\* Variant that stores the element in place of the list (overwrites earlier elements).
AppendValueOverwrites(cur, v) == <<v>>

\* A list field after one more element.
AppendValue(cur, v) == Append(cur, v)

\* setFlag: [err, v] for the field's value cur and the string value.
\* (float64 fields are outside the explored declarations and have no arm here.)
setFlag(valueType, cur, value) ==
    LET fail(t) == [err |-> Err("failed to parse", value, t), v |-> cur]
        ok(v) == [err |-> NoErr, v |-> v]
    IN CASE valueType = "bool" ->
              IF value # True /\ value # False THEN fail(<<"b", "o", "o", "l">>)
              ELSE ok(value = True)
         [] valueType \in {"int", "int64"} ->
              IF value = <<>> THEN ok(cur)
              ELSE IF ParseInt(value).ok THEN ok(ParseInt(value).v) ELSE fail(<<"i", "n", "t">>)
         [] valueType \in {"uint", "uint64"} ->
              IF value = <<>> THEN ok(cur)
              ELSE IF ParseUint(value).ok THEN ok(ParseUint(value).v) ELSE fail(<<"u", "i", "n", "t">>)
         [] valueType = "string" -> ok(value)
         [] valueType = "[]bool" ->
              IF value # True /\ value # False THEN fail(<<"b", "o", "o", "l">>)
              ELSE ok(AppendValue(cur, value = True))
         [] valueType \in {"[]int", "[]int64"} ->
              IF value = <<>> THEN ok(cur)
              ELSE IF ParseInt(value).ok THEN ok(AppendValue(cur, ParseInt(value).v))
              ELSE fail(<<"i", "n", "t">>)
         [] valueType \in {"[]uint", "[]uint64"} ->
              IF value = <<>> THEN ok(cur)
              ELSE IF ParseUint(value).ok THEN ok(AppendValue(cur, ParseUint(value).v))
              ELSE fail(<<"u", "i", "n", "t">>)
         [] valueType = "[]string" -> ok(AppendValue(cur, value))
         [] valueType \notin SupportedFlagTypes \/ valueType = "struct" ->
              [err |-> Err("invalid type", <<>>, <<>>), v |-> cur]

\* Variant that reports success and leaves the field as it is.
unsetFlagKeepsValue(valueType, cur) == [err |-> NoErr, v |-> cur]

\* unsetFlag: [err, v].
unsetFlag(valueType, cur) ==
    IF valueType \in SupportedFlagTypes \ {"struct"}
    THEN [err |-> NoErr, v |-> ZeroValue(valueType)]
    ELSE [err |-> Err("invalid type", <<>>, <<>>), v |-> cur]

-----------------------------------------------------------------------------
(* New, lines 58-113: the values of the matched arguments                  *)

\* The pieces of a delimited list value that are set: trimmed, empty ones dropped.
Pieces(value, delimiter) ==
    LET parts == Split(value, delimiter)
        trimmed == [i \in 1..Len(parts) |-> TrimSpace(parts[i])]
    IN SelectSeq(trimmed, LAMBDA v : v # <<>>)

\* setFlag on each value in turn: [v, err], err the last error returned (or prev).
RECURSIVE SetEach(_, _, _, _)
SetEach(valueType, cur, values, prev) ==
    IF values = <<>> THEN [v |-> cur, err |-> prev]
    ELSE LET r == setFlag(valueType, cur, Head(values))
         IN SetEach(valueType, r.v, Tail(values), IF r.err # NoErr THEN r.err ELSE prev)

\* Variant that also refuses an explicitly empty string (`--str=`, `--str=""`).
EmptyValueErrorStrictString(flag, arg) ==
    IF \/ (flag.valueType \in BoolTypes /\ arg.unset)
       \/ flag.valueType \in StringTypes
       \/ (flag.valueType \notin BoolTypes /\ flag.valueType \notin StringTypes)
    THEN Err("needs a value", arg.dash, arg.name)
    ELSE arg.err

\* Variant without the test for an explicitly empty boolean (`--bool=`).
EmptyValueErrorNoBool(flag, arg) ==
    IF \/ (flag.valueType \in StringTypes /\ ~arg.unset)
       \/ (flag.valueType \notin BoolTypes /\ flag.valueType \notin StringTypes)
    THEN Err("needs a value", arg.dash, arg.name)
    ELSE arg.err

\* The error of an argument whose value is empty (lines 79-87).
EmptyValueError(flag, arg) ==
    IF \/ (flag.valueType \in BoolTypes /\ arg.unset)
       \/ (flag.valueType \in StringTypes /\ ~arg.unset)
       \/ (flag.valueType \notin BoolTypes /\ flag.valueType \notin StringTypes)
    THEN Err("needs a value", arg.dash, arg.name)
    ELSE arg.err

\* The body of the inner loop for flag k and its matched Arg id: st = [flags, args, dest].
ApplyArg(st, k, id) ==
    LET flag == st.flags[k]
        arg0 == st.args[id + 1]
        truthy == flag.valueType \in BoolTypes /\ arg0.value = <<>> /\ ~arg0.unset
        arg1 == IF truthy THEN [arg0 EXCEPT !.value = True] ELSE arg0
        arg2 == IF arg1.value = <<>>
                THEN [arg1 EXCEPT !.err = EmptyValueError(flag, arg1)] ELSE arg1
        values == IF flag.delimiter # <<>> /\ IsListType(flag.valueType)
                  THEN Pieces(arg2.value, flag.delimiter)
                  ELSE <<arg2.value>>
        r == SetEach(flag.valueType, st.dest[flag.fieldIndex], values, arg2.err)
    IN IF arg0.kind # "arg" THEN st
       ELSE IF arg2.err # NoErr
            THEN [flags |-> [st.flags EXCEPT ![k].valueBy = "arg"],
                  args |-> [st.args EXCEPT ![id + 1] = arg2],
                  dest |-> st.dest]
            ELSE [flags |-> [st.flags EXCEPT ![k].valueBy = "arg"],
                  args |-> [st.args EXCEPT ![id + 1] = [arg2 EXCEPT !.err = r.err]],
                  dest |-> [st.dest EXCEPT ![flag.fieldIndex] = r.v]]

\* Variant that stops at the first matched argument (first occurrence wins).
ApplyFlagArgsFirstOnly(st, k, ids) ==
    IF ids = <<>> THEN st ELSE ApplyArg(st, k, Head(ids))

RECURSIVE ApplyFlagArgs(_, _, _)
ApplyFlagArgs(st, k, ids) ==
    IF ids = <<>> THEN st ELSE ApplyFlagArgs(ApplyArg(st, k, Head(ids)), k, Tail(ids))

RECURSIVE ApplyFlags(_, _)
ApplyFlags(st, k) ==
    IF k > Len(st.flags) THEN st
    ELSE IF st.flags[k].kind # "arg" THEN ApplyFlags(st, k + 1)
         ELSE ApplyFlags(ApplyFlagArgs(st, k, st.flags[k].args), k + 1)

-----------------------------------------------------------------------------
(* New, lines 115-144: rollback on argument errors, environment, default   *)

\* os.LookupEnv on the environment (a set of [name, value]).
LookupEnv(e, name) ==
    IF \E x \in e : x.name = name
    THEN [ok |-> TRUE, v |-> (CHOOSE x \in e : x.name = name).value]
    ELSE [ok |-> FALSE, v |-> <<>>]

\* Variant with the valueBy test dropped: every flag falls through to env and default.
ResolvedByArgDropped(flag) == FALSE

\* The flag was resolved by its arguments: env and default are skipped.
ResolvedByArg(flag) == flag.valueBy = "arg"

\* The loop body for flag k: st = [flags, dest].
UpdateFlag(st, as, e, k) ==
    LET flag == st.flags[k]
        cur == st.dest[flag.fieldIndex]
        hasArgErr == \E j \in 1..Len(flag.args) : as[flag.args[j] + 1].err # NoErr
        un == unsetFlag(flag.valueType, cur)
        ev == LookupEnv(e, flag.env)
        put(by, r) == [flags |-> [st.flags EXCEPT ![k].valueBy = by,
                                                 ![k].err = IF r.err # NoErr THEN r.err
                                                            ELSE flag.err],
                       dest |-> [st.dest EXCEPT ![flag.fieldIndex] = r.v]]
    IN IF ResolvedByArg(flag)
       THEN IF hasArgErr THEN put("arg", un) ELSE st
       ELSE IF ev.ok THEN put("env", setFlag(flag.valueType, cur, ev.v))
       ELSE IF flag.valueDefault # <<>>
            THEN put("default", setFlag(flag.valueType, cur, flag.valueDefault))
            ELSE st

RECURSIVE UpdateFlags(_, _, _, _)
UpdateFlags(st, as, e, k) ==
    IF k > Len(st.flags) THEN st ELSE UpdateFlags(UpdateFlag(st, as, e, k), as, e, k + 1)

-----------------------------------------------------------------------------
(* New, lines 146-186: required flags                                      *)

\* The parent command of a nested flag has no arguments: the flag is not required.
ParentUnmatched(fl, flag) ==
    LET p == lookupFlagByIndex(fl, flag.parentIndex)
    IN flag.parentIndex # <<>> /\ p # 0 /\ fl[p].args = <<>>

\* "argument <-short|--long> is required [for <command> command]".
RequiredError(fl, flag) ==
    LET p == lookupFlagByIndex(fl, flag.parentIndex)
        command == IF flag.parentIndex # <<>> /\ p # 0 THEN fl[p].command ELSE <<>>
        arg == IF flag.short # <<>> THEN <<"-">> \o flag.short
               ELSE IF flag.long # <<>> THEN <<"-", "-">> \o flag.long
               ELSE <<>>
    IN Err("argument is required", arg, command)

CheckRequiredFlag(fl, k) ==
    LET flag == fl[k]
    IN IF ~flag.required THEN flag
       ELSE IF flag.args # <<>> THEN flag
       ELSE IF flag.kind = "command"
            THEN [flag EXCEPT !.err = Err("command is required", flag.command, <<>>)]
       ELSE IF flag.kind = "arg"
            THEN IF ParentUnmatched(fl, flag) THEN flag
                 ELSE [flag EXCEPT !.err = RequiredError(fl, flag)]
       ELSE flag

CheckRequiredFlags(fl) == [k \in 1..Len(fl) |-> CheckRequiredFlag(fl, k)]

-----------------------------------------------------------------------------
(* FlagSet.Errors: flag errors and the errors of each flag's arguments     *)

ArgErrors(as, ids) ==
    LET errs == [j \in 1..Len(ids) |-> as[ids[j] + 1].err]
    IN SelectSeq(errs, LAMBDA x : x # NoErr)

RECURSIVE ErrorsFrom(_, _, _)
ErrorsFrom(fl, as, k) ==
    IF k > Len(fl) THEN <<>>
    ELSE (IF fl[k].err # NoErr THEN <<fl[k].err>> ELSE <<>>)
           \o ArgErrors(as, fl[k].args) \o ErrorsFrom(fl, as, k + 1)

Errors == ErrorsFrom(flags, args, 1)

-----------------------------------------------------------------------------
(* Explored inputs: declarations (destination structs), raw token lists    *)
(* over each declaration's tokens, and environments.                       *)

\* struct { CmdA struct{ X int `long:"x" required env:"X" default:"9"` } `command:"a"`
\*          CmdB struct{ X int `long:"x"` } `command:"b"` }
SiblingFields ==
    << CommandField("CmdA", <<0>>, <<>>, <<"a">>),
       [ArgField("X", <<0, 0>>, <<0>>, <<>>, <<"x">>, "int")
          EXCEPT !.required = TRUE, !.env = "X", !.valueDefault = <<"9">>],
       CommandField("CmdB", <<1>>, <<>>, <<"b">>),
       ArgField("X", <<1, 0>>, <<1>>, <<>>, <<"x">>, "int") >>

\* struct { A struct{ S struct{} `command:"s"` } `command:"a"`
\*          C struct{ R int `long:"r" required` } `command:"c"` }
NestedFields ==
    << CommandField("A", <<0>>, <<>>, <<"a">>),
       CommandField("S", <<0, 0>>, <<0>>, <<"s">>),
       CommandField("C", <<1>>, <<>>, <<"c">>),
       [ArgField("R", <<1, 0>>, <<1>>, <<>>, <<"r">>, "int") EXCEPT !.required = TRUE] >>

\* struct { A struct{ A struct{} `command:"a"` } `command:"a"`; B struct{} `command:"b"` }
SameNameFields ==
    << CommandField("A", <<0>>, <<>>, <<"a">>),
       CommandField("A", <<0, 0>>, <<0>>, <<"a">>),
       CommandField("B", <<1>>, <<>>, <<"b">>) >>

\* struct { Skip int; N int `short:"n" long:"num" required env:"N" default:"9"` }
IntFields ==
    << ArgField("Skip", <<0>>, <<>>, <<>>, <<>>, "int"),
       [ArgField("N", <<1>>, <<>>, <<"n">>, <<"n", "u", "m">>, "int")
          EXCEPT !.required = TRUE, !.env = "N", !.valueDefault = <<"9">>] >>

\* struct { B bool `short:"b" default:"true"`; U uint `short:"u"` }
BoolFields ==
    << [ArgField("B", <<0>>, <<>>, <<"b">>, <<>>, "bool") EXCEPT !.valueDefault = True],
       ArgField("U", <<1>>, <<>>, <<"u">>, <<>>, "uint") >>

\* struct { S string `long:"s" default:"d"` }
StringFields ==
    << [ArgField("S", <<0>>, <<>>, <<>>, <<"s">>, "string") EXCEPT !.valueDefault = <<"d">>] >>

\* struct { L []int `long:"l" delimiter:"," default:"8"`; M []string `long:"m"` }
ListFields ==
    << [ArgField("L", <<0>>, <<>>, <<>>, <<"l">>, "[]int")
          EXCEPT !.delimiter = <<",">>, !.valueDefault = <<"8">>],
       ArgField("M", <<1>>, <<>>, <<>>, <<"m">>, "[]string") >>

\* Two fields of one scope with the same short name, long name, command name.
DupShortFields ==
    << ArgField("X", <<0>>, <<>>, <<"x">>, <<>>, "int"),
       ArgField("Y", <<1>>, <<>>, <<"x">>, <<>>, "int") >>

DupLongFields ==
    << CommandField("A", <<0>>, <<>>, <<"a">>),
       ArgField("X", <<0, 0>>, <<0>>, <<>>, <<"x">>, "int"),
       ArgField("Y", <<0, 1>>, <<0>>, <<>>, <<"x">>, "int") >>

DupCommandFields ==
    << CommandField("A", <<0>>, <<>>, <<"a">>),
       CommandField("B", <<1>>, <<>>, <<"a">>) >>

\* struct { X int `short:"x"`; A struct{ Z int `short:"x"` } `command:"a"`; Y int `short:"x"` }
DupAcrossFields ==
    << ArgField("X", <<0>>, <<>>, <<"x">>, <<>>, "int"),
       CommandField("A", <<1>>, <<>>, <<"a">>),
       ArgField("Z", <<1, 0>>, <<1>>, <<"x">>, <<>>, "int"),
       ArgField("Y", <<2>>, <<>>, <<"x">>, <<>>, "int") >>

\* struct { Name string `short:"n" long:"name"` }
QuoteFields ==
    << ArgField("Name", <<0>>, <<>>, <<"n">>, <<"n", "a", "m", "e">>, "string") >>

NoEnv == {}

Declarations ==
    { [fields |-> SiblingFields,
       tokens |-> {<<"a">>, <<"b">>, <<"-", "-", "x", "=", "1">>, <<"-", "-", "x", "=", "2">>},
       envs   |-> {NoEnv, {[name |-> "X", value |-> <<"7">>]}}],
      [fields |-> NestedFields,
       tokens |-> {<<"a">>, <<"s">>, <<"c">>, <<"-", "-", "r", "=", "1">>, <<"-", "-", "r">>},
       envs   |-> {NoEnv}],
      [fields |-> SameNameFields,
       tokens |-> {<<"a">>, <<"b">>},
       envs   |-> {NoEnv}],
      [fields |-> IntFields,
       tokens |-> {<<"-", "n", "=", "1">>, <<"-", "-", "n", "u", "m", "=", "2">>,
                   <<"-", "-", "n", "u", "m">>, <<"3">>, <<"-", "n", "=", "z">>, <<"n">>},
       envs   |-> {NoEnv, {[name |-> "N", value |-> <<"7">>]},
                   {[name |-> "N", value |-> <<"z">>]}}],
      [fields |-> BoolFields,
       tokens |-> {<<"-", "b">>, <<"-", "b", "=">>, <<"-", "b", "=", "f", "a", "l", "s", "e">>,
                   <<"-", "b", "=", "t", "r", "u", "e">>, <<"v">>, <<"-", "u">>},
       envs   |-> {NoEnv}],
      [fields |-> StringFields,
       tokens |-> {<<"-", "-", "s">>, <<"-", "-", "s", "=", "\"", "\"">>, <<"-", "-", "s", "=">>,
                   <<"-", "-", "s", "=", "w">>, <<"v">>},
       envs   |-> {NoEnv}],
      [fields |-> ListFields,
       tokens |-> {<<"-", "-", "l", "=", "1", ",", "2">>, <<"-", "-", "l", "=", "3">>,
                   <<"-", "-", "l", "=", "z", ",", "1">>,
                   <<"-", "-", "l", "=", ",", " ", "4", ",">>,
                   <<"-", "-", "m", "=", "a">>, <<"-", "-", "m", "=">>},
       envs   |-> {NoEnv}],
      [fields |-> QuoteFields,
       tokens |-> {<<"-", "-", "n", "a", "m", "e", "=", "\"", "a", " ", "b", "\"">>,
                   <<"-", "-", "n", "a", "m", "e", "=", "'", "a", " ", "b", "'">>,
                   <<"-", "n", "=", "\"", "a">>,
                   <<"-", "n", "=", "\"", "\"", "a", "\"", "\"">>,
                   <<"-", "n">>, <<"\"", "v", "\"">>},
       envs   |-> {NoEnv}],
      [fields |-> DupShortFields, tokens |-> {<<"-", "x", "=", "1">>}, envs |-> {NoEnv}],
      [fields |-> DupLongFields, tokens |-> {<<"a">>}, envs |-> {NoEnv}],
      [fields |-> DupCommandFields, tokens |-> {<<"a">>}, envs |-> {NoEnv}],
      [fields |-> DupAcrossFields, tokens |-> {<<"-", "x", "=", "1">>, <<"a">>}, envs |-> {NoEnv}] }

\* The token lists of at most n tokens over S.
TokenLists(S, n) == UNION {[1..k -> S] : k \in 0..n}

-----------------------------------------------------------------------------
(* The state machine: flagset.New, one action per phase.                   *)

\* Options as passed to New; the destination struct starts with zero fields.
Init ==
    /\ \E d \in Declarations :
          /\ fields = d.fields
          /\ env \in d.envs
          /\ argsRaw \in TokenLists(d.tokens, MaxArgs)
    /\ pc = "structToFlags"
    /\ flags = <<>>
    /\ commands = <<>>
    /\ args = <<>>
    /\ dest = [ix \in {fields[k].fieldIndex : k \in 1..Len(fields)} |->
                  ZeroValue((CHOOSE f \in {fields[k] : k \in 1..Len(fields)} :
                                f.fieldIndex = ix).valueType)]
    /\ newErr = NoErr

\* New, lines 48-55: build and check the flags; the first error is returned.
StructToFlags ==
    /\ pc = "structToFlags"
    /\ LET r == structToFlags(fields)
       IN IF r.errs # <<>>
          THEN /\ newErr' = r.errs[1]
               /\ pc' = "failed"
               /\ UNCHANGED flags
          ELSE /\ flags' = r.flags
               /\ pc' = "parseCommands"
               /\ UNCHANGED newErr
    /\ UNCHANGED <<fields, env, argsRaw, commands, args, dest>>

\* parseArgs, lines 442-445: the commands are parsed first.
ParseCommands ==
    /\ pc = "parseCommands"
    /\ commands' = parseCommandsList(flags, argsRaw)
    /\ flags' = SetCommandIDs(flags, commands')
    /\ pc' = "parseArgs"
    /\ UNCHANGED <<fields, env, argsRaw, args, dest, newErr>>

\* parseArgs, lines 450-611.
ParseArgs ==
    /\ pc = "parseArgs"
    /\ LET r == parseArgsResult(flags, commands, argsRaw)
       IN /\ flags' = r.flags
          /\ args' = r.args
    /\ pc' = "applyArgs"
    /\ UNCHANGED <<fields, env, argsRaw, commands, dest, newErr>>

\* New, lines 58-113.
ApplyArgs ==
    /\ pc = "applyArgs"
    /\ LET r == ApplyFlags([flags |-> flags, args |-> args, dest |-> dest], 1)
       IN /\ flags' = r.flags
          /\ args' = r.args
          /\ dest' = r.dest
    /\ pc' = "updateValues"
    /\ UNCHANGED <<fields, env, argsRaw, commands, newErr>>

\* New, lines 115-144.
UpdateValues ==
    /\ pc = "updateValues"
    /\ LET r == UpdateFlags([flags |-> flags, dest |-> dest], args, env, 1)
       IN /\ flags' = r.flags
          /\ dest' = r.dest
    /\ pc' = "checkRequired"
    /\ UNCHANGED <<fields, env, argsRaw, commands, args, newErr>>

\* New, lines 146-188.
CheckRequired ==
    /\ pc = "checkRequired"
    /\ flags' = CheckRequiredFlags(flags)
    /\ pc' = "done"
    /\ UNCHANGED <<fields, env, argsRaw, commands, args, dest, newErr>>

Next ==
    \/ StructToFlags
    \/ ParseCommands
    \/ ParseArgs
    \/ ApplyArgs
    \/ UpdateValues
    \/ CheckRequired

Spec == Init /\ [][Next]_vars

-----------------------------------------------------------------------------
(* Vocabulary of the properties                                            *)

Done == pc = "done"

FlagIx == 1..Len(flags)

ArgFlagIx == {k \in FlagIx : flags[k].kind = "arg"}

\* The token positions (1-based, ascending) bound to flag k as occurrences of it.
Occurrences(k) ==
    {i \in 1..Len(args) : args[i].kind = "arg" /\ i - 1 \in {flags[k].args[j] : j \in 1..Len(flags[k].args)}}

LastOccurrence(k) == CHOOSE i \in Occurrences(k) : \A j \in Occurrences(k) : j <= i

FirstOccurrence(k) == CHOOSE i \in Occurrences(k) : \A j \in Occurrences(k) : i <= j

NoOccurrenceErrs(k) == \A i \in Occurrences(k) : args[i].err = NoErr

CommandNames == {fields[k].command : k \in {j \in 1..Len(fields) : fields[j].kind = "command"}}

\* Positions (1-based) of the raw tokens equal to a command name.
NamePositions(name) == {i \in 1..Len(argsRaw) : argsRaw[i] = name}

\* The flag (position) declared at an index path.
FlagAt(index) == CHOOSE k \in FlagIx : flags[k].fieldIndex = index

-----------------------------------------------------------------------------
\* C1: with sibling commands cmdA and cmdB that each declare a flag x, and both
\* command names in the token list (once each, in either order), every token bound
\* to a command's x lies after that command's name with no command name in between,
\* and `a --x=1 b --x=2` binds cmdA.x = 1 and cmdB.x = 2.
C1_NoLeakAcrossSiblings ==
    (Done /\ fields = SiblingFields /\ \A c \in CommandNames : Cardinality(NamePositions(c)) = 1)
    => /\ \A k \in ArgFlagIx : \A i \in Occurrences(k) :
             \E p \in NamePositions(flags[FlagAt(flags[k].parentIndex)].command) :
                 /\ p < i
                 /\ \A q \in (p + 1)..(i - 1) : argsRaw[q] \notin CommandNames
       /\ argsRaw = << <<"a">>, <<"-", "-", "x", "=", "1">>, <<"b">>, <<"-", "-", "x", "=", "2">> >>
             => dest[<<0, 0>>] = 1 /\ dest[<<1, 0>>] = 2

-----------------------------------------------------------------------------
\* C2: precedence is strict.  When New resolves the values, a flag that has a matching
\* argument token keeps the source "arg" and its value is left alone or rolled back to
\* zero (never the environment's or the default's), even if the token carries an error;
\* the environment is used only without a matching token, the default only without a
\* matching token and without the environment variable.
C2_StrictPrecedence ==
    [][pc = "updateValues" =>
         \A k \in ArgFlagIx :
            /\ Occurrences(k) # {} =>
                   /\ flags'[k].valueBy = "arg"
                   /\ dest'[flags[k].fieldIndex]
                          \in {dest[flags[k].fieldIndex], ZeroValue(flags[k].valueType)}
            /\ flags'[k].valueBy = "env" =>
                   Occurrences(k) = {} /\ LookupEnv(env, flags[k].env).ok
            /\ flags'[k].valueBy = "default" =>
                   Occurrences(k) = {} /\ ~LookupEnv(env, flags[k].env).ok]_vars

\* A flag whose only token carries an error, with its environment variable set and a
\* default declared, ends resolved by "arg" with the zero value.
C2_Witness ==
    /\ Done
    /\ fields = IntFields
    /\ argsRaw = << <<"-", "n", "=", "z">> >>
    /\ LookupEnv(env, "N").ok
    /\ flags[1].valueBy = "arg"
    /\ args[1].err # NoErr
    /\ dest[<<1>>] = 0

-----------------------------------------------------------------------------
\* C3: with no commands in play and every occurrence valid, a scalar flag given
\* several times (short name, long name, or both) holds the value of its last
\* occurrence in token order.
ScalarOf(valueType, value) ==
    CASE valueType = "bool" -> (value = True)
      [] valueType \in {"int", "int64"} -> ParseInt(value).v
      [] valueType \in {"uint", "uint64"} -> ParseUint(value).v
      [] valueType = "string" -> value

C3_LastOccurrenceWins ==
    (Done /\ CommandNames = {})
    => \A k \in ArgFlagIx :
          (/\ ~IsListType(flags[k].valueType)
           /\ Cardinality(Occurrences(k)) >= 2
           /\ NoOccurrenceErrs(k))
          => dest[flags[k].fieldIndex]
                = ScalarOf(flags[k].valueType, args[LastOccurrence(k)].value)

\* A flag given by its short and then by its long name, with different values.
C3_Witness ==
    /\ Done
    /\ CommandNames = {}
    /\ \E k \in ArgFlagIx :
          /\ flags[k].valueType = "int"
          /\ Cardinality(Occurrences(k)) >= 2
          /\ NoOccurrenceErrs(k)
          /\ args[FirstOccurrence(k)].dash = <<"-">>
          /\ args[LastOccurrence(k)].dash = <<"-", "-">>
          /\ args[FirstOccurrence(k)].value # args[LastOccurrence(k)].value
          /\ dest[flags[k].fieldIndex] = 2

-----------------------------------------------------------------------------
\* C4: construction fails, and resolves nothing, whenever two fields of the same
\* parent scope declare the same short name, long name or command name, whatever is
\* declared between them; and it does not fail for a name reused under another scope.
SameScopeDuplicate ==
    \E i, j \in 1..Len(fields) :
        /\ i < j
        /\ fields[i].parentIndex = fields[j].parentIndex
        /\ \/ fields[i].short # <<>> /\ fields[i].short = fields[j].short
           \/ fields[i].long # <<>> /\ fields[i].long = fields[j].long
           \/ fields[i].command # <<>> /\ fields[i].command = fields[j].command

C4_DuplicatesRejected ==
    pc # "structToFlags"
    => /\ SameScopeDuplicate => (pc = "failed" /\ newErr # NoErr /\ flags = <<>>)
       /\ ~SameScopeDuplicate => pc # "failed"

-----------------------------------------------------------------------------
\* C5: after construction, a required arg flag with no matched argument tokens whose
\* parent is none or a command located in the input carries the error
\* "argument <-short|--long> is required" (with "for <command> command" when nested),
\* reported once, whatever the environment and the default supply; under a command
\* that is not located in the input it carries no required error.
Located(p) ==
    \E c \in 1..Len(commands) : commands[c].flagID = flags[p].id /\ commands[c].argID # -1

ExpectedRequiredError(k) ==
    Err("argument is required",
        IF flags[k].short # <<>> THEN <<"-">> \o flags[k].short ELSE <<"-", "-">> \o flags[k].long,
        IF flags[k].parentIndex = <<>> THEN <<>>
        ELSE flags[FlagAt(flags[k].parentIndex)].command)

TimesReported(e) == Cardinality({j \in 1..Len(Errors) : Errors[j] = e})

C5_RequiredScoped ==
    Done
    => \A k \in ArgFlagIx :
          flags[k].required
          => LET top == flags[k].parentIndex = <<>>
                 parentLocated == ~top /\ Located(FlagAt(flags[k].parentIndex))
             IN /\ (flags[k].args = <<>> /\ (top \/ parentLocated))
                      => /\ flags[k].err = ExpectedRequiredError(k)
                         /\ TimesReported(ExpectedRequiredError(k)) = 1
                /\ (~top /\ ~parentLocated) => flags[k].err.msg # "argument is required"

-----------------------------------------------------------------------------
\* C6: a list flag whose occurrences are all valid holds the concatenation, in token
\* order, of each occurrence's value; with a delimiter the value is split on it, the
\* pieces trimmed and the empty ones dropped.
ElementOf(valueType, piece) ==
    CASE valueType = "[]bool" -> (piece = True)
      [] valueType \in {"[]int", "[]int64"} -> ParseInt(piece).v
      [] valueType \in {"[]uint", "[]uint64"} -> ParseUint(piece).v
      [] valueType = "[]string" -> piece

ElementsOf(k, i) ==
    LET pieces == IF flags[k].delimiter # <<>>
                  THEN SelectSeq(Split(args[i].value, flags[k].delimiter),
                                 LAMBDA piece : TrimSpace(piece) # <<>>)
                  ELSE <<args[i].value>>
    IN [j \in 1..Len(pieces) |-> ElementOf(flags[k].valueType, TrimSpace(pieces[j]))]

RECURSIVE ConcatOccurrences(_, _)
ConcatOccurrences(k, i) ==
    IF i > Len(args) THEN <<>>
    ELSE (IF i \in Occurrences(k) THEN ElementsOf(k, i) ELSE <<>>) \o ConcatOccurrences(k, i + 1)

C6_ListConcatenation ==
    Done
    => \A k \in ArgFlagIx :
          (IsListType(flags[k].valueType) /\ Occurrences(k) # {} /\ NoOccurrenceErrs(k))
          => dest[flags[k].fieldIndex] = ConcatOccurrences(k, 1)

\* `--l=, 4, --l=1,2 --l=3` (in some order) resolved to three or more elements.
C6_Witness ==
    /\ Done
    /\ \E k \in ArgFlagIx :
          /\ IsListType(flags[k].valueType)
          /\ flags[k].delimiter # <<>>
          /\ Cardinality(Occurrences(k)) >= 2
          /\ NoOccurrenceErrs(k)
          /\ \E i \in Occurrences(k) : Len(Split(args[i].value, flags[k].delimiter)) > Len(ElementsOf(k, i))
          /\ Len(dest[flags[k].fieldIndex]) >= 3

-----------------------------------------------------------------------------
\* C7: a flag with a matching argument that carries an error (no value, or a value
\* that does not parse, also as one piece of a delimited list) ends with the zero
\* value of its type, and Errors() returns the argument's error.
C7_RollbackOnArgError ==
    Done
    => \A k \in ArgFlagIx : \A i \in Occurrences(k) :
          args[i].err # NoErr
          => /\ dest[flags[k].fieldIndex] = ZeroValue(flags[k].valueType)
             /\ \E j \in 1..Len(Errors) : Errors[j] = args[i].err

\* `--l=z,1`: the piece 1 parses and z does not; the list ends empty, the error stays.
C7_Witness ==
    /\ Done
    /\ fields = ListFields
    /\ argsRaw = << <<"-", "-", "l", "=", "z", ",", "1">> >>
    /\ dest[<<0>>] = <<>>
    /\ args[1].err.msg = "failed to parse"
    /\ Len(Errors) >= 1

-----------------------------------------------------------------------------
(* Shapes of a raw token, read off the token list.                         *)

HasEqSign(i) == \E j \in 1..Len(argsRaw[i]) : argsRaw[i][j] = "="

StartsWithDash(i) == HasPrefix(argsRaw[i], <<"-">>)

\* Token i has no `=` and no bare token after it.
BareFlag(i) ==
    /\ StartsWithDash(i)
    /\ ~HasEqSign(i)
    /\ (i = Len(argsRaw) \/ StartsWithDash(i + 1))

\* Token i ends with `=` or with `=""`.
EmptyAfterEq(i) ==
    LET t == argsRaw[i]
    IN /\ StartsWithDash(i)
       /\ \/ (Len(t) >= 1 /\ t[Len(t)] = "=")
          \/ (Len(t) >= 3 /\ SubSeq(t, Len(t) - 2, Len(t)) = <<"=", "\"", "\"">>)

NeedsValue(i) == Err("needs a value", args[i].dash, args[i].name)

-----------------------------------------------------------------------------
\* C8: a boolean flag whose occurrences are valid and whose last occurrence has no
\* `=` and no bare value after it is true; a boolean flag given `--flag=` has the
\* error "needs a value" on that token and is not true; a flag that is neither
\* boolean nor string, matched by a token without any value, has "needs a value".
C8_ValueDefaulting ==
    Done
    => \A k \in ArgFlagIx : \A i \in Occurrences(k) :
          /\ (/\ flags[k].valueType = "bool"
              /\ i = LastOccurrence(k)
              /\ BareFlag(i)
              /\ NoOccurrenceErrs(k))
                => dest[flags[k].fieldIndex] = TRUE
          /\ (flags[k].valueType = "bool" /\ EmptyAfterEq(i))
                => /\ args[i].err = NeedsValue(i)
                   /\ dest[flags[k].fieldIndex] = FALSE
          /\ (/\ flags[k].valueType \notin BoolTypes \cup StringTypes
              /\ StartsWithDash(i)
              /\ (BareFlag(i) \/ EmptyAfterEq(i)))
                => args[i].err = NeedsValue(i)

\* `-b -b= -u`: -b alone is read as true, `-b=` has the error and the boolean ends
\* false (its default "true" unused); the uint flag has "needs a value".
C8_Witness ==
    /\ Done
    /\ fields = BoolFields
    /\ argsRaw = << <<"-", "b">>, <<"-", "b", "=">>, <<"-", "u">> >>
    /\ args[1].value = True
    /\ args[1].err = NoErr
    /\ args[2].err = Err("needs a value", <<"-">>, <<"b">>)
    /\ dest[<<0>>] = FALSE
    /\ args[3].err = Err("needs a value", <<"-">>, <<"u">>)

-----------------------------------------------------------------------------
\* C9 as stated: for a string flag `--str=""` yields "needs a value" as `--bool=`
\* does, and `--str` followed by the bare token value resolves to "value", no error.
QuoteChars == {"\"", "'"}

\* Token i has no `=` and the next token is a bare word (no dash, no quote).
FollowedByBare(i) ==
    /\ i < Len(argsRaw)
    /\ ~StartsWithDash(i + 1)
    /\ ~HasEqSign(i)
    /\ \A j \in 1..Len(argsRaw[i + 1]) : argsRaw[i + 1][j] \notin QuoteChars

C9_EmptyStringErrors ==
    Done
    => \A k \in ArgFlagIx : \A i \in Occurrences(k) :
          flags[k].valueType = "string"
          => /\ EmptyAfterEq(i) => args[i].err = NeedsValue(i)
             /\ (i = LastOccurrence(k) /\ StartsWithDash(i) /\ FollowedByBare(i)
                   /\ NoOccurrenceErrs(k))
                  => dest[flags[k].fieldIndex] = argsRaw[i + 1]

\* C9 amended: for a string flag `--str=""` (and `--str=`) carries no error and, as
\* the last of valid occurrences, resolves the flag to the empty string; the error
\* "needs a value" goes to `--str` with no value at all; `--str` followed by the bare
\* token value resolves to "value" with no error.
C9_EmptyStringAllowed ==
    Done
    => \A k \in ArgFlagIx : \A i \in Occurrences(k) :
          flags[k].valueType = "string"
          => /\ EmptyAfterEq(i) => args[i].err = NoErr
             /\ (EmptyAfterEq(i) /\ i = LastOccurrence(k) /\ NoOccurrenceErrs(k))
                  => dest[flags[k].fieldIndex] = <<>>
             /\ BareFlag(i) => args[i].err = NeedsValue(i)
             /\ (StartsWithDash(i) /\ FollowedByBare(i)) => args[i].err = NoErr
             /\ (i = LastOccurrence(k) /\ StartsWithDash(i) /\ FollowedByBare(i)
                   /\ NoOccurrenceErrs(k))
                  => dest[flags[k].fieldIndex] = argsRaw[i + 1]

\* `--s v --s=""`: both occurrences are valid and the string ends empty.
C9_Witness ==
    /\ Done
    /\ fields = StringFields
    /\ argsRaw = << <<"-", "-", "s">>, <<"v">>, <<"-", "-", "s", "=", "\"", "\"">> >>
    /\ args[1].value = <<"v">>
    /\ args[3].unset
    /\ Errors = <<>>
    /\ dest[<<0>>] = <<>>

-----------------------------------------------------------------------------
\* C10: after command segmentation, every located nested command has its parent
\* command located at a strictly smaller token index (so without the parent in the
\* input a nested command is never located).
CommandsParsed == pc \in {"parseArgs", "applyArgs", "updateValues", "checkRequired", "done"}

C10_NestedAfterParent ==
    CommandsParsed
    => \A c \in 1..Len(commands) :
          (commands[c].parentID # -1 /\ commands[c].argID # -1)
          => LET parent == commands[commands[c].parentID + 1]
             IN parent.argID # -1 /\ parent.argID < commands[c].argID

-----------------------------------------------------------------------------
\* C11: the value of a flag token (after the `=`, or the following token) loses one
\* matching pair of enclosing quotes of the same kind and nothing else: a value that
\* only starts with a quote, or that is wrapped in several quotes, loses at most that
\* pair; `--name="a b"` and `--name='a b'` resolve to `a b`.
ArgsParsed == pc \in {"applyArgs", "updateValues", "checkRequired", "done"}

\* The text of token i after its first `=`.
AfterEq(i) ==
    LET t == argsRaw[i]
        e == CHOOSE j \in 1..Len(t) : t[j] = "=" /\ \A h \in 1..(j - 1) : t[h] # "="
    IN SubSeq(t, e + 1, Len(t))

\* v without one enclosing pair of equal quotes, v itself when it has none.
WithoutOnePair(v) ==
    IF Len(v) >= 2 /\ v[1] \in QuoteChars /\ v[Len(v)] = v[1]
    THEN SubSeq(v, 2, Len(v) - 1)
    ELSE v

C11_OneQuotePair ==
    Done
    => \A k \in ArgFlagIx : \A i \in Occurrences(k) :
          (flags[k].valueType = "string" /\ StartsWithDash(i))
          => /\ args[i].hasEq => args[i].value = WithoutOnePair(AfterEq(i))
             /\ (~args[i].hasEq /\ i < Len(args) /\ args[i + 1].kind = "argval")
                   => args[i].value = WithoutOnePair(argsRaw[i + 1])
             /\ (/\ i = LastOccurrence(k)
                 /\ NoOccurrenceErrs(k)
                 /\ HasEqSign(i)
                 /\ AfterEq(i) \in {<<"\"", "a", " ", "b", "\"">>, <<"'", "a", " ", "b", "'">>})
                   => dest[flags[k].fieldIndex] = <<"a", " ", "b">>

-----------------------------------------------------------------------------
\* C12: after command segmentation, every located command has
\* indexFrom < indexTo <= number of tokens, with indexFrom its occurrence index and
\* indexTo the occurrence index of the next located command after it in the token
\* list, or the end of the token list if none follows, for every order of the
\* command names in the input.
LocatedCommands == {c \in 1..Len(commands) : commands[c].argID # -1}

\* Where the range of located command c ends: the nearest located command after it
\* in the token list, the end of the list if there is none.
NextLocatedIndex(c) ==
    LET later == {commands[d].indexFrom : d \in {e \in LocatedCommands :
                                                   commands[e].indexFrom > commands[c].indexFrom}}
    IN IF later = {} THEN Len(argsRaw)
       ELSE CHOOSE m \in later : \A n \in later : m <= n

C12_CommandRanges ==
    CommandsParsed
    => \A c \in LocatedCommands :
          /\ commands[c].indexFrom = commands[c].argID
          /\ commands[c].indexFrom < commands[c].indexTo
          /\ commands[c].indexTo <= Len(argsRaw)
          /\ commands[c].indexTo = NextLocatedIndex(c)

-----------------------------------------------------------------------------
\* C13: argument segmentation creates exactly one Arg per raw token, and for every
\* located command the Arg at its occurrence index is classified `command` and owned
\* by that command, so the command's flag has that token among its matched args.
CommandFlagOf(c) == CHOOSE k \in FlagIx : flags[k].id = commands[c].flagID

C13_CommandTokenClassified ==
    ArgsParsed
    => /\ Len(args) = Len(argsRaw)
       /\ \A i \in 1..Len(args) : args[i].id = i - 1 /\ args[i].arg = argsRaw[i]
       /\ \A c \in LocatedCommands :
             LET a == args[commands[c].argID + 1]
                 owned == flags[CommandFlagOf(c)].args
             IN /\ a.kind = "command"
                /\ a.commandID = commands[c].id
                /\ a.flagID = commands[c].flagID
                /\ \E j \in 1..Len(owned) : owned[j] = commands[c].argID

-----------------------------------------------------------------------------
\* C14: a token with no dash prefix is never bound to a flag as an occurrence of it,
\* even when its text equals the flag's short or long name; so a flag with no
\* dash-prefixed occurrence is never resolved by 'argument' and, when it is a
\* required top-level flag, carries the required error.
C14_UnnamedNeverBound ==
    Done
    => \A k \in ArgFlagIx :
          /\ \A i \in Occurrences(k) : StartsWithDash(i)
          /\ (\A i \in Occurrences(k) : ~StartsWithDash(i))
                => /\ flags[k].valueBy # "arg"
                   /\ (flags[k].required /\ flags[k].parentIndex = <<>>)
                         => flags[k].err = ExpectedRequiredError(k)

-----------------------------------------------------------------------------
\* C15: Errors() lists each per-argument error exactly once: its length is the
\* number of flags carrying a flag error plus the number of distinct argument tokens
\* carrying an error, for top-level flags and for flags nested under commands.
FlagsInError == {k \in FlagIx : flags[k].err # NoErr}

ArgsInError == {i \in 1..Len(args) : args[i].err # NoErr}

C15_ErrorsOnce ==
    Done => Len(Errors) = Cardinality(FlagsInError) + Cardinality(ArgsInError)

====
